---- MODULE Spec2Model ----
(***************************************************************************)
(* Model of src/app.py: the CSV upload pipeline of the copilote MVP.       *)
(*                                                                         *)
(*   upload -> pd.read_csv (sniffing, then ";") -> normalize_df            *)
(*          -> compute_kpis_and_alerts -> template response                *)
(*                                                                         *)
(* Conventions                                                             *)
(*  - text (a header, a cell, a file name) is a tuple of one-character     *)
(*    strings, so that strip / lower / replace / parsing are computed;     *)
(*  - a nullable value is a tuple of length <= 1: <<>> is NaN / NaT /      *)
(*    None, <<v>> is the value v;                                          *)
(*  - an amount is an integer number of hundredths (Scale), the sums and   *)
(*    rolling statistics are exact rationals [num, den]; rev_std7 is held  *)
(*    by its square (the sample variance), which has the same sign and the *)
(*    same null-ness.  Floating-point rounding is not modelled.            *)
(*  - a calendar date is the integer yyyymmdd.                             *)
(***************************************************************************)
EXTENDS Integers, Sequences, FiniteSets, TLC

VARIABLES
    pc,        \* position of the request in upload (or home)
    filename,  \* file.filename
    raw,       \* the frame pd.read_csv returned
    df,        \* the frame normalize_df returned
    daily,     \* compute_kpis_and_alerts: the daily frame
    alerts,    \* compute_kpis_and_alerts: the alerts
    today,     \* compute_kpis_and_alerts: the last day's record
    table,     \* compute_kpis_and_alerts: the last days, as records
    exc,       \* the exception caught by upload's outer try
    response   \* the template context returned

vars == <<pc, filename, raw, df, daily, alerts, today, table, exc, response>>

----------------------------------------------------------------------------
(* Nullable values                                                         *)

NaN == <<>>
Val(v) == <<v>>
IsNull(c) == c = <<>>
NotNa(c) == c # <<>>
Get(c) == c[1]

----------------------------------------------------------------------------
(* Sequence helpers                                                        *)

Range(s) == {s[i] : i \in DOMAIN s}
InSeq(x, s) == \E i \in DOMAIN s : s[i] = x
Count(x, s) == Cardinality({i \in DOMAIN s : s[i] = x})
Min(a, b) == IF a <= b THEN a ELSE b
Max(a, b) == IF a >= b THEN a ELSE b

RECURSIVE SumSeq(_)
SumSeq(s) == IF s = <<>> THEN 0 ELSE s[1] + SumSeq(Tail(s))

RECURSIVE SortedSeq(_)
\* the elements of a finite set of integers, ascending
SortedSeq(S) ==
    IF S = {} THEN <<>>
    ELSE LET m == CHOOSE x \in S : \A y \in S : x <= y
         IN <<m>> \o SortedSeq(S \ {m})

----------------------------------------------------------------------------
(* Text: str.strip, str.lower, str.replace                                 *)

UpperChars == <<"A", "B", "C", "D", "E", "F", "G", "H", "I", "J", "K", "L", "M",
                "N", "O", "P", "Q", "R", "S", "T", "U", "V", "W", "X", "Y", "Z">>
LowerChars == <<"a", "b", "c", "d", "e", "f", "g", "h", "i", "j", "k", "l", "m",
                "n", "o", "p", "q", "r", "s", "t", "u", "v", "w", "x", "y", "z">>
DigitChars == <<"0", "1", "2", "3", "4", "5", "6", "7", "8", "9">>
Whitespace == {" ", "\t"}

LowerChar(c) ==
    IF InSeq(c, UpperChars)
    THEN LowerChars[CHOOSE i \in DOMAIN UpperChars : UpperChars[i] = c]
    ELSE c
Lower(s) == [i \in DOMAIN s |-> LowerChar(s[i])]

RECURSIVE LStrip(_)
LStrip(s) == IF s # <<>> /\ s[1] \in Whitespace THEN LStrip(Tail(s)) ELSE s
RECURSIVE RStrip(_)
RStrip(s) ==
    IF s # <<>> /\ s[Len(s)] \in Whitespace
    THEN RStrip(SubSeq(s, 1, Len(s) - 1))
    ELSE s
Strip(s) == RStrip(LStrip(s))

\* str.replace(old, new, regex=False) for one-character old and new
Replace(s, old, new) == [i \in DOMAIN s |-> IF s[i] = old THEN new ELSE s[i]]

IsDigit(c) == InSeq(c, DigitChars)
DigitVal(c) == (CHOOSE i \in DOMAIN DigitChars : DigitChars[i] = c) - 1
AllDigits(s) == \A i \in DOMAIN s : IsDigit(s[i])

RECURSIVE DigitsVal(_)
DigitsVal(s) ==
    IF s = <<>> THEN 0
    ELSE 10 * DigitsVal(SubSeq(s, 1, Len(s) - 1)) + DigitVal(s[Len(s)])

----------------------------------------------------------------------------
(* Text literals                                                           *)

S_date == <<"d", "a", "t", "e">>
S_jour == <<"j", "o", "u", "r">>
S_transaction_date == <<"t", "r", "a", "n", "s", "a", "c", "t", "i", "o", "n", "_", "d", "a", "t", "e">>
S_amount == <<"a", "m", "o", "u", "n", "t">>
S_montant == <<"m", "o", "n", "t", "a", "n", "t">>
S_price == <<"p", "r", "i", "c", "e">>
S_total == <<"t", "o", "t", "a", "l">>
S_customer_id == <<"c", "u", "s", "t", "o", "m", "e", "r", "_", "i", "d">>
S_client == <<"c", "l", "i", "e", "n", "t">>
S_customer == <<"c", "u", "s", "t", "o", "m", "e", "r">>
S_client_id == <<"c", "l", "i", "e", "n", "t", "_", "i", "d">>
S_nan == <<"n", "a", "n">>

----------------------------------------------------------------------------
(* Cell coercions of normalize_df                                          *)

\* amounts are held in hundredths
Scale == 100

\* Series.astype(str): a missing cell becomes the text "nan" (the object
\* dtype of pandas 1.x and 2.x)
AsTypeStr(c) == IF IsNull(c) THEN S_nan ELSE Get(c)

\* the unsigned decimal text s ([digits][.digits], at least one digit) in
\* hundredths, NaN for anything else; the catalogue of cells has at most two
\* decimals, further decimals are cut
ParseUnsigned(s) ==
    LET dots == {i \in DOMAIN s : s[i] = "."}
        dot  == IF dots = {} THEN Len(s) + 1 ELSE CHOOSE i \in dots : TRUE
        ip   == SubSeq(s, 1, dot - 1)
        fp   == SubSeq(s, dot + 1, Len(s))
        f2   == SubSeq(fp \o <<"0", "0">>, 1, 2)
    IN IF Cardinality(dots) <= 1 /\ AllDigits(ip) /\ AllDigits(fp)
          /\ Len(ip) + Len(fp) >= 1
       THEN Val(DigitsVal(ip) * Scale + DigitsVal(f2))
       ELSE NaN

\* pd.to_numeric(text, errors="coerce")
ToNumeric(s) ==
    IF s # <<>> /\ s[1] \in {"-", "+"}
    THEN LET u == ParseUnsigned(Tail(s))
         IN IF IsNull(u) THEN NaN
            ELSE Val(IF s[1] = "-" THEN 0 - Get(u) ELSE Get(u))
    ELSE ParseUnsigned(s)

DaysInMonth(m) == IF m = 2 THEN 29 ELSE IF m \in {4, 6, 9, 11} THEN 30 ELSE 31

\* pd.to_datetime(cell, errors="coerce").dt.date, for the ISO form
\* YYYY-MM-DD (the only date form of the catalogue of cells): the date as
\* the integer yyyymmdd, NaT for a missing cell or any other text
ToDate(c) ==
    IF IsNull(c) THEN NaN
    ELSE LET s == Get(c)
             y == DigitsVal(SubSeq(s, 1, 4))
             m == DigitsVal(SubSeq(s, 6, 7))
             d == DigitsVal(SubSeq(s, 9, 10))
         IN IF Len(s) = 10 /\ s[5] = "-" /\ s[8] = "-"
               /\ AllDigits(SubSeq(s, 1, 4)) /\ AllDigits(SubSeq(s, 6, 7))
               /\ AllDigits(SubSeq(s, 9, 10))
               /\ m \in 1..12 /\ d \in 1..DaysInMonth(m)
            THEN Val(y * 10000 + m * 100 + d)
            ELSE NaN

\* Series.astype(str) of a datetime.date: YYYY-MM-DD
Pad(n, width) ==
    [i \in 1..width |-> DigitChars[((n \div (10 ^ (width - i))) % 10) + 1]]
DateStr(d) ==
    Pad(d \div 10000, 4) \o <<"-">> \o Pad((d \div 100) % 100, 2)
        \o <<"-">> \o Pad(d % 100, 2)

----------------------------------------------------------------------------
(* normalize_df                                                            *)

Targets == <<S_date, S_amount, S_customer_id>>

column_map ==
    [t \in Range(Targets) |->
        IF t = S_date THEN <<S_date, S_jour, S_transaction_date>>
        ELSE IF t = S_amount THEN <<S_amount, S_montant, S_price, S_total>>
        ELSE <<S_customer_id, S_client, S_customer, S_client_id>>]

\* line 13: df.columns = [str(c).strip().lower() for c in df.columns]
CleanColumns(cols) == [i \in DOMAIN cols |-> Lower(Strip(cols[i]))]

\* lines 22-27: for each target the first variant that is a column
Hits(t, cols) == SelectSeq(column_map[t], LAMBDA v : InSeq(v, cols))
Normalized(cols) ==
    [t \in {u \in Range(Targets) : Hits(u, cols) # <<>>} |-> Hits(t, cols)[1]]

\* line 29
Missing(cols) == Range(Targets) \ DOMAIN Normalized(cols)

\* lines 31-39: the ValueError's message. Its only variable part is the list
\* of columns found; the three "expected" lines are literal text
ExpectedLines ==
    << [label |-> S_date,     aliases |-> <<S_date, S_jour, S_transaction_date>>],
       [label |-> S_amount,   aliases |-> <<S_amount, S_montant, S_price, S_total>>],
       [label |-> S_customer, aliases |-> <<S_customer_id, S_client, S_customer, S_client_id>>] >>

SchemaError(cols) ==
    [type |-> "ValueError", found |-> cols, expected |-> ExpectedLines,
     hint |-> TRUE]

\* line 42: df.rename(columns={v: k for k, v in normalized.items()})
Rename(cols) ==
    LET n == Normalized(cols)
    IN [i \in DOMAIN cols |->
          IF \E t \in DOMAIN n : n[t] = cols[i]
          THEN CHOOSE t \in DOMAIN n : n[t] = cols[i]
          ELSE cols[i]]

\* df[name] is a Series only when one column has that name
Col(cols, name) == CHOOSE i \in DOMAIN cols : cols[i] = name

\* lines 45-52 on the i-th row: the three coerced fields, with the row's
\* label in the frame's RangeIndex
Coerce(cols, row, i) ==
    [idx         |-> i - 1,
     customer_id |-> Val(Strip(AsTypeStr(row[Col(cols, S_customer_id)]))),
     date        |-> ToDate(row[Col(cols, S_date)]),
     amount      |-> ToNumeric(Replace(AsTypeStr(row[Col(cols, S_amount)]), ",", "."))]

\* line 55: df.dropna(subset=["date", "amount", "customer_id"])
DropNa(rows) ==
    SelectSeq(rows, LAMBDA r : NotNa(r.date) /\ NotNa(r.amount) /\ NotNa(r.customer_id))

\* a faulty variant of line 56: the zero amounts are kept
NonZero_KeepAll(rows) == rows

\* line 56: df[df["amount"] != 0]
NonZero(rows) == SelectSeq(rows, LAMBDA r : Get(r.amount) # 0)

\* the whole function: the cleaned rows, or the exception raised
normalize_df(t) ==
    LET cols == CleanColumns(t.columns)
        ren  == Rename(cols)
    IN IF Missing(cols) # {}
       THEN [ok |-> FALSE, exc |-> SchemaError(cols)]
       ELSE IF Count(S_customer_id, ren) > 1
       THEN [ok |-> FALSE, exc |-> [type |-> "AttributeError", line |-> 45]]
       ELSE IF Count(S_date, ren) > 1
       THEN [ok |-> FALSE, exc |-> [type |-> "ValueError", line |-> 48]]
       ELSE IF Count(S_amount, ren) > 1
       THEN [ok |-> FALSE, exc |-> [type |-> "AttributeError", line |-> 51]]
       ELSE [ok |-> TRUE,
             df |-> NonZero(DropNa([i \in DOMAIN t.rows |->
                                       Coerce(ren, t.rows[i], i)]))]

----------------------------------------------------------------------------
(* compute_kpis_and_alerts                                                 *)

Window == 7
MinPeriods == 4
MinDays == 4
AlertZ == -2
WatchZ == -1
TailLen == 14

\* a / b for b > 0 rounded to the nearest integer, ties to even
RoundDiv(a, b) ==
    LET q == a \div b
        r == a % b
    IN IF 2 * r < b THEN q
       ELSE IF 2 * r > b THEN q + 1
       ELSE IF q % 2 = 0 THEN q ELSE q + 1

\* a faulty variant of lines 62-71: customers counts the day's rows, not its
\* distinct customer_id
GroupBy_CustomersAsRows(rows) ==
    LET ds == SortedSeq({Get(r.date) : r \in {x \in Range(rows) : NotNa(x.date)}})
    IN [k \in DOMAIN ds |->
          LET g == SelectSeq(rows, LAMBDA r : NotNa(r.date) /\ Get(r.date) = ds[k])
              a == SelectSeq(g, LAMBDA r : NotNa(r.amount))
          IN [date      |-> ds[k],
              revenue   |-> SumSeq([i \in DOMAIN a |-> Get(a[i].amount)]),
              orders    |-> Len(a),
              customers |-> Len(g)]]

\* lines 62-71: groupby("date").agg(...).reset_index().sort_values("date");
\* groupby leaves out a null key, sum and count skip null amounts, nunique
\* skips null customers
Group(rows, d) == SelectSeq(rows, LAMBDA r : NotNa(r.date) /\ Get(r.date) = d)
Amounts(g) ==
    LET h == SelectSeq(g, LAMBDA r : NotNa(r.amount))
    IN [i \in DOMAIN h |-> Get(h[i].amount)]
GroupBy(rows) ==
    LET ds == SortedSeq({Get(r.date) : r \in {x \in Range(rows) : NotNa(x.date)}})
    IN [k \in DOMAIN ds |->
          LET g == Group(rows, ds[k])
          IN [date      |-> ds[k],
              revenue   |-> SumSeq(Amounts(g)),
              orders    |-> Len(Amounts(g)),
              customers |-> Cardinality({Get(r.customer_id) :
                               r \in {x \in Range(g) : NotNa(x.customer_id)}})]]

\* line 73: (revenue / orders).round(2), in hundredths
Aov(rec) == IF rec.orders = 0 THEN NaN ELSE Val(RoundDiv(rec.revenue, rec.orders))

\* a faulty variant of the window: the 7 records before i, without i
WindowOf_BeforeToday(revs, i) == SubSeq(revs, Max(1, i - 7), i - 1)

\* rolling(7, min_periods=4): the observations of the window ending at i
WindowOf(revs, i) == SubSeq(revs, Max(1, i - Window + 1), i)

\* line 74: .mean(), an exact rational
RollingMean(revs, i) ==
    LET w == WindowOf(revs, i)
    IN IF Len(w) >= MinPeriods
       THEN Val([num |-> SumSeq(w), den |-> Len(w)])
       ELSE NaN

\* a faulty variant of line 75: the population variance (ddof = 0)
RollingVar_Population(revs, i) ==
    LET w  == SubSeq(revs, Max(1, i - 6), i)
        n  == Len(w)
        s1 == SumSeq(w)
        s2 == SumSeq([k \in DOMAIN w |-> w[k] * w[k]])
    IN IF n >= 4 THEN Val([num |-> n * s2 - s1 * s1, den |-> n * n]) ELSE NaN

\* line 75: .std() with ddof = 1, held by its square
\*   var = (n * sum(x^2) - sum(x)^2) / (n * (n - 1))
RollingVar(revs, i) ==
    LET w  == WindowOf(revs, i)
        n  == Len(w)
        s1 == SumSeq(w)
        s2 == SumSeq([k \in DOMAIN w |-> w[k] * w[k]])
    IN IF n >= MinPeriods
       THEN Val([num |-> n * s2 - s1 * s1, den |-> n * (n - 1)])
       ELSE NaN

\* lines 62-75: the daily frame
Daily(rows) ==
    LET g    == GroupBy(rows)
        revs == [k \in DOMAIN g |-> g[k].revenue]
    IN [k \in DOMAIN g |->
          [date      |-> g[k].date,
           revenue   |-> g[k].revenue,
           orders    |-> g[k].orders,
           customers |-> g[k].customers,
           aov       |-> Aov(g[k]),
           rev_ma7   |-> RollingMean(revs, k),
           rev_std7  |-> RollingVar(revs, k)]]

\* last["rev_std7"] > 0
StdPositive(last) == Get(last.rev_std7).num > 0

\* z < t for an integer t <= 0, where
\*   z = (last.revenue - last.rev_ma7) / last.rev_std7   (line 81)
\* with d = revenue - mean = dn / den and std^2 = vn / vd, std > 0:
\*   z < t  <=>  d < t * std  <=>  d < 0 /\ d^2 > t^2 * std^2
ZBelow(last, t) ==
    LET ma == Get(last.rev_ma7)
        v  == Get(last.rev_std7)
        dn == last.revenue * ma.den - ma.num
    IN dn < 0 /\ dn * dn * v.den > t * t * ma.den * ma.den * v.num

\* the f"{...:.2f}" values of an alert's detail, in hundredths
Detail(last) ==
    [revenue |-> last.revenue,
     mean    |-> RoundDiv(Get(last.rev_ma7).num, Get(last.rev_ma7).den)]

AlertAlerte(last) ==
    [level |-> "ALERTE", title |-> "Baisse anormale du revenu aujourd'hui",
     detail |-> Detail(last),
     action |-> "Verifie: pubs, conversion, checkout/paiements, incident produit."]
AlertSurveillance(last) ==
    [level |-> "SURVEILLANCE", title |-> "Revenu sous la moyenne recente",
     detail |-> Detail(last),
     action |-> "Controle: trafic, taux de conversion, offre, prix."]
AlertOk ==
    [level |-> "OK", title |-> "Stabilite detectee",
     detail |-> <<>>,
     action |-> "Ensuite: ajouter Ads + Analytics pour CAC/ROAS."]

\* a faulty variant of lines 77-95: the z < -1 test comes first
Anomaly_ChecksSwapped(dl) ==
    IF Len(dl) >= 4
    THEN LET last == dl[Len(dl)]
         IN IF NotNa(last.rev_ma7) /\ NotNa(last.rev_std7) /\ StdPositive(last)
            THEN IF ZBelow(last, -1) THEN <<AlertSurveillance(last)>>
                 ELSE IF ZBelow(last, -2) THEN <<AlertAlerte(last)>>
                 ELSE <<>>
            ELSE <<>>
    ELSE <<>>

\* lines 77-95: the alerts appended by the anomaly rule
Anomaly(dl) ==
    IF Len(dl) >= MinDays
    THEN LET last == dl[Len(dl)]
         IN IF NotNa(last.rev_ma7) /\ NotNa(last.rev_std7) /\ StdPositive(last)
            THEN IF ZBelow(last, AlertZ) THEN <<AlertAlerte(last)>>
                 ELSE IF ZBelow(last, WatchZ) THEN <<AlertSurveillance(last)>>
                 ELSE <<>>
            ELSE <<>>
    ELSE <<>>

\* a faulty variant of lines 97-103: the default alert is appended without
\* the "if not alerts" test
Alerts_DefaultAlways(dl) == Append(Anomaly(dl), AlertOk)

\* lines 97-103: the default alert
Alerts(dl) == IF Anomaly(dl) = <<>> THEN <<AlertOk>> ELSE Anomaly(dl)

\* line 105: daily.iloc[-1].to_dict() if len(daily) else {}
Today(dl) == IF Len(dl) > 0 THEN dl[Len(dl)] ELSE <<>>

\* a faulty variant of lines 106-109: the first 14 records (head)
DailyTail_Head(dl) ==
    LET t == SubSeq(dl, 1, Min(Len(dl), 14))
    IN [k \in DOMAIN t |-> [t[k] EXCEPT !.date = DateStr(t[k].date)]]

\* lines 106-109: daily.tail(14), the date rendered as text
DailyTail(dl) ==
    LET t == SubSeq(dl, Max(1, Len(dl) - TailLen + 1), Len(dl))
    IN [k \in DOMAIN t |-> [t[k] EXCEPT !.date = DateStr(t[k].date)]]

----------------------------------------------------------------------------
(* Inputs: what pd.read_csv can return for an uploaded file                *)

MaxRows == 2

H_Jour == <<" ", "J", "o", "u", "r", " ">>
H_Montant == <<"M", "O", "N", "T", "A", "N", "T">>
H_Client == <<"C", "l", "i", "e", "n", "t", " ">>
H_note == <<"n", "o", "t", "e">>
H_Date == <<"D", "a", "t", "e">>
T_d1 == <<"2", "0", "2", "4", "-", "0", "1", "-", "0", "1">>
T_d2 == <<"2", "0", "2", "4", "-", "0", "1", "-", "0", "2">>
T_hier == <<"h", "i", "e", "r">>
T_zero_comma == <<"0", ",", "0", "0">>
T_zero == <<"0">>
T_zero_dot == <<"0", ".", "0">>
T_1999 == <<"1", "9", ",", "9", "9">>
T_thousands == <<"1", ".", "2", "3", "4", ",", "5", "6">>
T_neg5 == <<"-", "5">>
T_A == <<"A">>
T_A_padded == <<" ", "A", " ">>
T_ventes_csv == <<"v", "e", "n", "t", "e", "s", ".", "c", "s", "v">>

\* The kinds of file uploaded: the header row, and for each column the cells
\* it can hold.
\*  1 canonical headers, plain numbers, blank cells, an unparseable date
\*  2 aliased headers (case, padding), decimal commas, padded ids, one
\*    column of no group
\*  3 two headers that clean to the same name
\*  4-7 files with no header of one or more groups
Exports ==
    { [columns |-> <<S_date, S_amount, S_customer_id>>,
       cells   |-> << {Val(T_d1), Val(T_hier)},
                      {Val(T_zero), Val(T_zero_dot), Val(T_neg5), NaN},
                      {Val(T_A), NaN} >>],
      [columns |-> <<H_Jour, H_Montant, H_Client, H_note>>,
       cells   |-> << {Val(T_d1), Val(T_d2)},
                      {Val(T_zero_comma), Val(T_1999), Val(T_thousands)},
                      {Val(T_A), Val(T_A_padded)},
                      {NaN} >>],
      [columns |-> <<H_Date, S_date, S_amount, S_client_id>>,
       cells   |-> << {Val(T_d1)}, {NaN}, {Val(T_1999)}, {Val(T_A)} >>],
      [columns |-> <<S_amount, S_customer_id>>,
       cells   |-> << {Val(T_zero_comma), Val(T_1999)}, {Val(T_A)} >>],
      [columns |-> <<S_transaction_date, S_customer>>,
       cells   |-> << {Val(T_d1)}, {Val(T_A), NaN} >>],
      [columns |-> <<S_jour, S_total>>,
       cells   |-> << {Val(T_d1), Val(T_d2)}, {Val(T_1999)} >>],
      [columns |-> <<S_price, H_note>>,
       cells   |-> << {Val(T_1999)}, {NaN} >>] }

RECURSIVE RowsFrom(_, _)
\* the rows of a file of kind e, from column i on
RowsFrom(e, i) ==
    IF i > Len(e.columns) THEN {<<>>}
    ELSE {<<c>> \o r : c \in e.cells[i], r \in RowsFrom(e, i + 1)}

Frames ==
    UNION {{[columns |-> e.columns, rows |-> rs] :
              rs \in UNION {[1..n -> RowsFrom(e, 1)] : n \in 0..MaxRows}} :
           e \in Exports}

----------------------------------------------------------------------------
(* The request handlers                                                    *)

NoFrame == [columns |-> <<>>, rows |-> <<>>]

Init ==
    /\ pc = "idle"
    /\ filename = <<>>
    /\ raw = NoFrame
    /\ df = <<>>
    /\ daily = <<>>
    /\ alerts = <<>>
    /\ today = <<>>
    /\ table = <<>>
    /\ exc = <<>>
    /\ response = <<>>

\* lines 112-114: GET /
home ==
    /\ pc = "idle"
    /\ pc' = "done"
    /\ response' = [request |-> TRUE]
    /\ UNCHANGED <<filename, raw, df, daily, alerts, today, table, exc>>

\* lines 118-121: POST /upload, the content is read and the try entered
UploadRead ==
    /\ pc = "idle"
    /\ pc' = "read"
    /\ filename' = T_ventes_csv
    /\ UNCHANGED <<raw, df, daily, alerts, today, table, exc, response>>

\* lines 124-126: pd.read_csv(raw, sep=None, engine="python") returns a frame
\* or raises
ReadCsvSniff ==
    /\ pc = "read"
    /\ \/ \E f \in Frames :
            /\ raw' = f
            /\ pc' = "parsed"
       \/ /\ pc' = "sniff_failed"
          /\ UNCHANGED raw
    /\ UNCHANGED <<filename, df, daily, alerts, today, table, exc, response>>

\* lines 126-128: the fallback pd.read_csv(raw, sep=";") returns a frame, or
\* raises into the outer except
ReadCsvSemicolon ==
    /\ pc = "sniff_failed"
    /\ \/ \E f \in Frames :
            /\ raw' = f
            /\ pc' = "parsed"
            /\ UNCHANGED exc
       \/ /\ pc' = "failed"
          /\ exc' = [type |-> "ParserError"]
          /\ UNCHANGED raw
    /\ UNCHANGED <<filename, df, daily, alerts, today, table, response>>

\* line 130: df = normalize_df(df)
NormalizeDf ==
    /\ pc = "parsed"
    /\ LET r == normalize_df(raw)
       IN IF r.ok
          THEN /\ df' = r.df
               /\ pc' = "normalized"
               /\ UNCHANGED exc
          ELSE /\ exc' = r.exc
               /\ pc' = "failed"
               /\ UNCHANGED df
    /\ UNCHANGED <<filename, raw, daily, alerts, today, table, response>>

\* line 131: table, today, alerts = compute_kpis_and_alerts(df)
ComputeKpisAndAlerts ==
    /\ pc = "normalized"
    /\ daily' = Daily(df)
    /\ alerts' = Alerts(daily')
    /\ today' = Today(daily')
    /\ table' = DailyTail(daily')
    /\ pc' = "computed"
    /\ UNCHANGED <<filename, raw, df, exc, response>>

\* lines 133-139: the context of the result page
ResultContext ==
    [request |-> TRUE, filename |-> filename, alerts |-> alerts,
     today |-> today, table |-> table]

\* a faulty variant of line 142: the error page also carries the alerts
ErrorContext_WithResults == [request |-> TRUE, error |-> exc, alerts |-> alerts]

\* line 142: the context of the error page, error = str(e)
ErrorContext == [request |-> TRUE, error |-> exc]

RespondResult ==
    /\ pc = "computed"
    /\ response' = ResultContext
    /\ pc' = "done"
    /\ UNCHANGED <<filename, raw, df, daily, alerts, today, table, exc>>

RespondError ==
    /\ pc = "failed"
    /\ response' = ErrorContext
    /\ pc' = "done"
    /\ UNCHANGED <<filename, raw, df, daily, alerts, today, table, exc>>

Next ==
    \/ home
    \/ UploadRead
    \/ ReadCsvSniff
    \/ ReadCsvSemicolon
    \/ NormalizeDf
    \/ ComputeKpisAndAlerts
    \/ RespondResult
    \/ RespondError

Spec == Init /\ [][Next]_vars

----------------------------------------------------------------------------
(* compute_kpis_and_alerts on its own: the cleaned frame is drawn directly *)

MaxDays == 15
FreeDays == 6

\* daily amounts 0.01, 0.03 and 0.06 (z is unchanged by the unit, and small
\* amounts keep the exact products within TLC's integers)
KpiAmounts == {1, 3, 6}
\* the days present: 1-3 January, then from the 14th on (a gap in the calendar)
KpiDay(i) == IF i <= 3 THEN 20240100 + i ELSE 20240110 + i

\* a cleaned frame of n days, one row a day; the last days' amounts are
\* given by recent, the days before them have the amount 0.03
KpiFrame(n, recent) ==
    [i \in 1..n |->
        [idx         |-> i - 1,
         date        |-> Val(KpiDay(i)),
         amount      |-> Val(IF i <= n - Len(recent) THEN 3
                             ELSE recent[i - (n - Len(recent))]),
         customer_id |-> Val(T_A)]]

InitKpi ==
    /\ pc = "normalized"
    /\ filename = T_ventes_csv
    /\ raw = NoFrame
    /\ \E n \in 0..MaxDays :
         \E recent \in [1..Min(n, FreeDays) -> KpiAmounts] :
            df = KpiFrame(n, recent)
    /\ daily = <<>>
    /\ alerts = <<>>
    /\ today = <<>>
    /\ table = <<>>
    /\ exc = <<>>
    /\ response = <<>>

NextKpi == ComputeKpisAndAlerts \/ RespondResult

SpecKpi == InitKpi /\ [][NextKpi]_vars

----------------------------------------------------------------------------
(* The aggregation on its own: cleaned frames of a few rows, several rows  *)
(* a day, in any order                                                     *)

MaxAggRows == 3

AggDates == {20240101, 20240105}
AggAmounts == {0 - 5 * Scale, 10 * Scale, 1999}
AggCustomers == {T_A, S_nan}

AggRows ==
    {[date |-> Val(d), amount |-> Val(a), customer_id |-> Val(c)] :
        d \in AggDates, a \in AggAmounts, c \in AggCustomers}

AggFrame(rs) ==
    [i \in DOMAIN rs |->
        [idx |-> i - 1, date |-> rs[i].date, amount |-> rs[i].amount,
         customer_id |-> rs[i].customer_id]]

InitAgg ==
    /\ pc = "normalized"
    /\ filename = T_ventes_csv
    /\ raw = NoFrame
    /\ \E n \in 0..MaxAggRows : \E rs \in [1..n -> AggRows] : df = AggFrame(rs)
    /\ daily = <<>>
    /\ alerts = <<>>
    /\ today = <<>>
    /\ table = <<>>
    /\ exc = <<>>
    /\ response = <<>>

NextAgg == ComputeKpisAndAlerts \/ RespondResult

SpecAgg == InitAgg /\ [][NextAgg]_vars

----------------------------------------------------------------------------
(* Properties                                                              *)

\* the frame normalize_df was given, with its columns cleaned and renamed
RawColumns == Rename(CleanColumns(raw.columns))
\* the cell of the row labelled idx
RawCell(idx, name) == raw.rows[idx + 1][Col(RawColumns, name)]

\* the groups an error message lists as expected (its "customer" line is the
\* customer_id group)
GroupOfLabel(l) == IF l = S_customer THEN S_customer_id ELSE l
NamedGroups(e) == {GroupOfLabel(e.expected[i].label) : i \in DOMAIN e.expected}

SchemaFailed == pc = "failed" /\ "found" \in DOMAIN exc

\* C1: when the headers hold no alias of exactly one group, normalize_df
\* fails with an error whose content names that group, and only that group,
\* as the missing one.
C1_ErrorNamesMissingGroup ==
    (pc \in {"parsed", "failed"} /\ Cardinality(Missing(CleanColumns(raw.columns))) = 1)
        => /\ pc = "failed" => SchemaFailed
           /\ SchemaFailed => NamedGroups(exc) = Missing(CleanColumns(raw.columns))

\* C2: every row normalize_df returns has date, amount and customer_id
\* non-null and a non-zero amount, and comes from a raw row whose
\* customer_id cell is not missing.
C2_NullCustomerDropped ==
    pc = "normalized" =>
        \A k \in DOMAIN df :
            /\ NotNa(df[k].date) /\ NotNa(df[k].amount) /\ NotNa(df[k].customer_id)
            /\ Get(df[k].amount) # 0
            /\ NotNa(RawCell(df[k].idx, S_customer_id))

Computed == pc = "computed"
LastDay == daily[Len(daily)]
Level == alerts[1].level

\* the sign of z + p/q for a daily record, p, q > 0, where
\* z = (revenue - rev_ma7) / rev_std7 and rev_std7 > 0:
\* -1 when z < -p/q, 0 when z = -p/q, 1 when z > -p/q
ZVersusOf(last, p, q) ==
    LET m  == Get(last.rev_ma7)
        v  == Get(last.rev_std7)
        dn == last.revenue * m.den - m.num
        l  == q * q * dn * dn * v.den
        r  == p * p * m.den * m.den * v.num
    IN IF dn >= 0 THEN 1
       ELSE IF l > r THEN -1 ELSE IF l = r THEN 0 ELSE 1
ZVersus(p, q) == ZVersusOf(LastDay, p, q)

AlertPrecondition ==
    /\ Len(daily) >= 4
    /\ NotNa(LastDay.rev_ma7)
    /\ NotNa(LastDay.rev_std7)
    /\ Get(LastDay.rev_std7).num > 0

\* C3: the level is decided by the last daily record: with at least 4 days,
\* non-null rolling statistics and rev_std7 > 0 it is ALERTE when z < -2,
\* SURVEILLANCE when -2 <= z < -1 and OK when z >= -1; otherwise it is OK.
C3_AlertLevel ==
    Computed =>
        Level = IF AlertPrecondition
                THEN IF ZVersus(2, 1) = -1 THEN "ALERTE"
                     ELSE IF ZVersus(1, 1) = -1 THEN "SURVEILLANCE"
                     ELSE "OK"
                ELSE "OK"

\* an abnormal drop is reported
C3_Witness == Computed /\ AlertPrecondition /\ Level = "ALERTE"

\* C4: for every cleaned frame, the empty one included, the alerts are a
\* list of exactly one alert whose level is OK, SURVEILLANCE or ALERTE.
C4_OneAlert ==
    Computed => Len(alerts) = 1 /\ alerts[1].level \in {"OK", "SURVEILLANCE", "ALERTE"}

\* the empty frame has its single alert
C4_Witness == Computed /\ df = <<>> /\ Len(alerts) = 1

\* the frames of at least 7 days, rev_std7 > 0, whose last day has
\* z = -p/q exactly and whose alert has this level
TestFrames(p, q, level) ==
    {f \in UNION {{KpiFrame(n, recent) : recent \in [1..Min(n, FreeDays) -> KpiAmounts]} :
                     n \in 7..MaxDays} :
        LET dl == Daily(f)
        IN /\ Get(dl[Len(dl)].rev_std7).num > 0
           /\ ZVersusOf(dl[Len(dl)], p, q) = 0
           /\ Alerts(dl)[1].level = level}

\* C5 (as stated): among the cleaned frames a request can hold there are
\* frames of at least 7 days, rev_std7 > 0, whose last day is exactly 2.5
\* standard deviations below its 7-day mean, and they give ALERTE; and
\* frames whose last day is exactly 1.5 below, which give SURVEILLANCE.
C5_ThresholdsExercisable ==
    pc = "normalized" =>
        /\ TestFrames(5, 2, "ALERTE") # {}
        /\ TestFrames(3, 2, "SURVEILLANCE") # {}

\* C5 (amended): with at least 7 days and rev_std7 > 0 the last day, being
\* one of the 7 values of its own window, has z^2 <= 36/7, so it is never
\* 2.5 standard deviations below the mean; it gives ALERTE whenever z < -2,
\* and SURVEILLANCE when it is exactly 1.5 below.
C5_ThresholdsWithinWindow ==
    (Computed /\ Len(daily) >= 7 /\ Get(LastDay.rev_std7).num > 0) =>
        LET m  == Get(LastDay.rev_ma7)
            v  == Get(LastDay.rev_std7)
            dn == LastDay.revenue * m.den - m.num
        IN /\ 7 * dn * dn * v.den <= 36 * m.den * m.den * v.num
           /\ ZVersus(5, 2) = 1
           /\ ZVersus(2, 1) = -1 => Level = "ALERTE"
           /\ ZVersus(3, 2) = 0 => Level = "SURVEILLANCE"

\* a last day exactly 1.5 standard deviations below the mean of its window
C5_Witness ==
    /\ Computed /\ Len(daily) >= 7 /\ Get(LastDay.rev_std7).num > 0
    /\ ZVersus(3, 2) = 0
    /\ Level = "SURVEILLANCE"

\* the amount cells the claim lists as zero
ZeroTexts == {T_zero, T_zero_comma, T_zero_dot}
ZeroRow(i) ==
    LET c == RawCell(i - 1, S_amount) IN NotNa(c) /\ Get(c) \in ZeroTexts
Cleaned == pc \in {"normalized", "computed"}

\* C6: a raw row whose amount is a zero (0, "0,00", "0.0") is absent from
\* the cleaned frame, is counted in no day's orders or customers, and a date
\* whose rows all have a zero amount has no daily record.
C6_ZeroAmountExcluded ==
    /\ Cleaned =>
          \A i \in DOMAIN raw.rows :
              ZeroRow(i) => \A k \in DOMAIN df : df[k].idx # i - 1
    /\ Computed =>
          \A k \in DOMAIN daily :
              LET live == {i \in DOMAIN raw.rows :
                              /\ ToDate(RawCell(i - 1, S_date)) = Val(daily[k].date)
                              /\ ~ZeroRow(i)}
              IN /\ live # {}
                 /\ daily[k].orders <= Cardinality(live)
                 /\ daily[k].customers <= Cardinality(live)

\* a day with only a zero row beside a day with a sale
C6_Witness ==
    /\ Computed
    /\ Len(daily) = 1
    /\ \E i \in DOMAIN raw.rows :
          /\ ZeroRow(i)
          /\ NotNa(ToDate(RawCell(i - 1, S_date)))
          /\ ToDate(RawCell(i - 1, S_date)) # Val(daily[1].date)

\* the revenues of the min(i, 7) records ending at position i
RecentRevenues(i) ==
    [k \in 1..Min(i, 7) |-> daily[i - Min(i, 7) + k].revenue]

\* C7: the first three records have null rev_ma7 and rev_std7; from the
\* fourth on rev_ma7 is the mean and rev_std7 the sample (N-1) standard
\* deviation of the revenues of the min(i, 7) records ending there, counted
\* by position.
C7_RollingGate ==
    Computed =>
        \A i \in DOMAIN daily :
            IF i <= 3
            THEN IsNull(daily[i].rev_ma7) /\ IsNull(daily[i].rev_std7)
            ELSE /\ NotNa(daily[i].rev_ma7)
                 /\ NotNa(daily[i].rev_std7)
                 /\ LET c  == Min(i, 7)
                        w  == RecentRevenues(i)
                        s  == SumSeq(w)
                        m  == Get(daily[i].rev_ma7)
                        v  == Get(daily[i].rev_std7)
                        \* sum of (x - s/c)^2, times c^2
                        ss == SumSeq([k \in DOMAIN w |-> (c * w[k] - s) * (c * w[k] - s)])
                    IN /\ m.num * c = s * m.den
                       /\ v.num * c * c * (c - 1) = ss * v.den

\* statistics over a full window that follows the gap in the calendar
C7_Witness ==
    /\ Computed
    /\ Len(daily) >= 8
    /\ IsNull(daily[3].rev_ma7)
    /\ Get(daily[4].rev_std7).num > 0
    /\ Get(daily[8].rev_std7).num > 0
    /\ daily[1].revenue # daily[8].revenue

RowsOn(d) == {j \in DOMAIN df : df[j].date = Val(d)}
RECURSIVE AmountOver(_)
\* the sum of the amounts of the cleaned rows at these positions
AmountOver(J) ==
    IF J = {} THEN 0
    ELSE LET j == CHOOSE x \in J : TRUE
         IN Get(df[j].amount) + AmountOver(J \ {j})

\* C8: one daily record per distinct date of the cleaned rows, in strictly
\* ascending date order; revenue is the sum of the date's amounts, orders
\* the number of its rows (at least 1), customers the number of its
\* distinct customer_id; the orders of all days add up to the number of
\* cleaned rows.
C8_Aggregation ==
    Computed =>
        /\ {daily[k].date : k \in DOMAIN daily} = {Get(df[j].date) : j \in DOMAIN df}
        /\ Len(daily) = Cardinality({Get(df[j].date) : j \in DOMAIN df})
        /\ \A k \in 1..(Len(daily) - 1) : daily[k].date < daily[k + 1].date
        /\ \A k \in DOMAIN daily :
              /\ daily[k].revenue = AmountOver(RowsOn(daily[k].date))
              /\ daily[k].orders = Cardinality(RowsOn(daily[k].date))
              /\ daily[k].orders >= 1
              /\ daily[k].customers =
                    Cardinality({df[j].customer_id : j \in RowsOn(daily[k].date)})
        /\ SumSeq([k \in DOMAIN daily |-> daily[k].orders]) = Len(df)

\* rows out of date order: two customers on the later day listed first, one
\* on the earlier day
C8_Witness ==
    /\ Computed
    /\ Len(df) = 3
    /\ Get(df[1].date) > Get(df[3].date)
    /\ Len(daily) = 2
    /\ daily[1].orders = 1
    /\ daily[2].orders = 2 /\ daily[2].customers = 2
    /\ daily[2].revenue = 1499

\* C9: the table is the last min(n, 14) daily records in ascending date
\* order, today is the last daily record (the day of the table's last
\* entry); with no daily record the table and today are empty, the single
\* alert is OK and nothing is raised.
C9_OutputWindow ==
    Computed =>
        LET n == Len(daily)
            m == Min(n, 14)
        IN /\ Len(table) = m
           /\ \A k \in 1..m :
                 LET d == daily[n - m + k]
                 IN /\ ToDate(Val(table[k].date)) = Val(d.date)
                    /\ table[k].revenue = d.revenue
                    /\ table[k].orders = d.orders
                    /\ table[k].customers = d.customers
                    /\ table[k].aov = d.aov
                    /\ table[k].rev_ma7 = d.rev_ma7
                    /\ table[k].rev_std7 = d.rev_std7
           /\ \A k \in 1..(m - 1) :
                 Get(ToDate(Val(table[k].date))) < Get(ToDate(Val(table[k + 1].date)))
           /\ n > 0 => /\ today = daily[n]
                       /\ Val(today.date) = ToDate(Val(table[m].date))
           /\ n = 0 => /\ table = <<>>
                       /\ today = <<>>
                       /\ Len(alerts) = 1 /\ Level = "OK"
                       /\ exc = <<>>

\* fifteen days: the first is cut from the table
C9_Witness ==
    /\ Computed
    /\ Len(daily) = 15
    /\ Len(table) = 14
    /\ table[1].date = DateStr(daily[2].date)
    /\ today = daily[15]

ResultKeys == {"filename", "alerts", "today", "table"}

\* the stages of upload, in order, on the frame read
StagesDone ==
    /\ normalize_df(raw).ok
    /\ df = normalize_df(raw).df
    /\ daily = Daily(df)

\* C10: the sniffing parse is tried first and the ";" parse once, only after
\* it failed; a failed fallback or a failed normalize_df is followed by the
\* error response alone, with no later stage run and no retry; a response
\* never holds an error beside alerts, today or table; a response with them
\* is given only after every stage completed.
C10_FailureIsTerminal ==
    [][ /\ pc' = "read" => pc = "idle"
        /\ pc = "read" => pc' \in {"parsed", "sniff_failed"}
        /\ pc' = "parsed" => pc \in {"read", "sniff_failed"}
        /\ pc' = "sniff_failed" => pc = "read"
        /\ pc = "sniff_failed" => pc' \in {"parsed", "failed"}
        /\ pc' = "failed" =>
              /\ pc \in {"sniff_failed", "parsed"}
              /\ exc' # <<>>
              /\ df' = <<>> /\ daily' = <<>> /\ alerts' = <<>>
        /\ pc = "failed" =>
              /\ pc' = "done"
              /\ DOMAIN response' = {"request", "error"}
              /\ response'.error = exc
              /\ UNCHANGED <<raw, df, daily, alerts, today, table, exc>>
        /\ pc' = "done" =>
              /\ ~("error" \in DOMAIN response' /\ DOMAIN response' \cap ResultKeys # {})
              /\ DOMAIN response' \cap ResultKeys # {} =>
                    /\ pc = "computed"
                    /\ exc = <<>>
                    /\ StagesDone
                    /\ ResultKeys \subseteq DOMAIN response'
                    /\ response'.alerts = Alerts(daily)
                    /\ response'.today = Today(daily)
                    /\ response'.table = DailyTail(daily)
        /\ pc = "done" => pc' = "done"
      ]_vars

\* both parses failed and the error page is returned
C10_Witness ==
    /\ pc = "done"
    /\ DOMAIN response = {"request", "error"}
    /\ response.error.type = "ParserError"
    /\ df = <<>> /\ alerts = <<>>

====
